---- MODULE Spec2Model ----
(***************************************************************************)
(* ciSignature (src/hotspot/share/ci/ciSignature.cpp): the resolved        *)
(* signature of a method.  A signature is built either from descriptor     *)
(* text, one SignatureStream token per loop iteration, or from a           *)
(* ciMethodType; afterwards it is only read through its queries.           *)
(*                                                                         *)
(* Descriptor text is a sequence of one-character strings, class names are *)
(* one character long ("P" for Point, "S" for String).                     *)
(***************************************************************************)
EXTENDS Integers, Sequences, FiniteSets, TLC

VARIABLES build, ctor, sig, last

vars == <<build, ctor, sig, last>>

(* ----------------------------- bounds ---------------------------------- *)

\* longest parameter list of a descriptor handed to the text constructor
MaxParams == 3
\* longest parameter list of a ciMethodType handed to the other constructor
MaxPTypes == 2

(* ------------------------------ ciType --------------------------------- *)

\* canonical type entities; identity is the string
PrimitiveTypes == {"int", "long", "double", "void"}
\* Point: loaded value klass; String, String2: two distinct loaded classes
\* both named S; PointUnloaded: placeholder of the not yet loaded class P
KlassTypes == {"Point", "String", "String2", "PointUnloaded"}
Types == PrimitiveTypes \cup KlassTypes

basic_type(t) ==
  CASE t = "int" -> "T_INT"
    [] t = "long" -> "T_LONG"
    [] t = "double" -> "T_DOUBLE"
    [] t = "void" -> "T_VOID"
    [] t = "Point" -> "T_VALUETYPE"
    [] OTHER -> "T_OBJECT"

\* ciType::size(): type2size of the basic type
type2size(bt) ==
  CASE bt \in {"T_LONG", "T_DOUBLE"} -> 2
    [] bt = "T_VOID" -> 0
    [] OTHER -> 1

is_valuetype(t) == t = "Point"
is_instance_klass(t) == t \in KlassTypes
is_loaded(t) == t # "PointUnloaded"

ciType_make(bt) ==
  CASE bt = "T_INT" -> "int"
    [] bt = "T_LONG" -> "long"
    [] bt = "T_DOUBLE" -> "double"
    [] OTHER -> "void"

\* an element of _types: a ciType, or a ciWrapper around one
PlainType(t) == [type |-> t, wrapper |-> FALSE]
make_never_null_wrapper(t) == [type |-> t, wrapper |-> TRUE]
unwrap(e) == e.type
is_never_null(e) == e.wrapper
size_of(e) == type2size(basic_type(e.type))

(* ------------------------- descriptor symbols -------------------------- *)

RECURSIVE SeqsUpTo(_, _)
SeqsUpTo(S, n) ==
  IF n = 0 THEN {<<>>}
  ELSE LET shorter == SeqsUpTo(S, n - 1)
       IN  shorter \cup {Append(s, x) : s \in {t \in shorter : Len(t) = n - 1}, x \in S}

RECURSIVE Flatten(_)
Flatten(ss) == IF ss = <<>> THEN <<>> ELSE Head(ss) \o Flatten(Tail(ss))

ParamTokens ==
  { <<"I">>, <<"D">>, <<"L", "S", ";">>, <<"Q", "S", ";">>, <<"Q", "P", ";">>,
    <<"L", "P", ";">> }
ReturnTokens == ParamTokens \cup { <<"V">> }

Descriptor(params, ret) == <<"(">> \o Flatten(params) \o <<")">> \o ret

ValidDescriptors ==
  { Descriptor(ps, r) : ps \in SeqsUpTo(ParamTokens, MaxParams), r \in ReturnTokens }

\* descriptors that violate the grammar: no return token, no ")", an
\* unknown tag, a class name without its ";"
MalformedDescriptors ==
  { <<"(", "I", ")">>, <<"(", "I">>, <<"(">>, <<"(", "Q", "P", ";", ")">>,
    <<"(", "X", ")", "V">>, <<"(", "I", ")", "X">>, <<"(", "I", "X", ")", "V">>,
    <<"(", "L", "P", ")", "V">>, <<"(", ")", "L", "S">> }

Descriptors == ValidDescriptors \cup MalformedDescriptors

(* --------------------------- SignatureStream --------------------------- *)

decode_signature_char(ch) ==
  CASE ch = "I" -> "T_INT"
    [] ch = "J" -> "T_LONG"
    [] ch = "D" -> "T_DOUBLE"
    [] ch = "V" -> "T_VOID"
    [] ch = "L" -> "T_OBJECT"
    [] ch = "Q" -> "T_VALUETYPE"
    [] OTHER -> "T_ILLEGAL"

BadStream == [begin |-> 0, end |-> 0, state |-> "bad", type |-> "T_ILLEGAL"]

\* index of the first ";" at or after position p, 0 when there is none
RECURSIVE find_semicolon(_, _)
find_semicolon(sym, p) ==
  IF p > Len(sym) THEN 0
  ELSE IF sym[p] = ";" THEN p
  ELSE IF sym[p] = ")" THEN 0
  ELSE find_semicolon(sym, p + 1)

\* read the token that starts at position p
scan_token(sym, p, state) ==
  IF p > Len(sym) THEN BadStream
  ELSE LET bt == decode_signature_char(sym[p])
       IN  IF bt = "T_ILLEGAL" THEN BadStream
           ELSE IF bt \in {"T_OBJECT", "T_VALUETYPE"}
             THEN LET semi == find_semicolon(sym, p + 1)
                  IN  IF semi = 0 \/ semi = p + 1 THEN BadStream
                      ELSE [begin |-> p, end |-> semi + 1, state |-> state, type |-> bt]
           ELSE IF bt = "T_VOID" /\ state # "return" THEN BadStream
           ELSE [begin |-> p, end |-> p + 1, state |-> state, type |-> bt]

\* SignatureStream::next(): advance to the next token; ")" switches the
\* stream to the return type
ss_next(sym, ss) ==
  IF ss.end > Len(sym) THEN BadStream
  ELSE IF sym[ss.end] = ")"
    THEN IF ss.state = "method" THEN scan_token(sym, ss.end + 1, "return") ELSE BadStream
  ELSE IF ss.state = "return" THEN BadStream
  ELSE scan_token(sym, ss.end, ss.state)

\* SignatureStream ss(sh): positioned on the first token
ss_new(sym) ==
  IF Len(sym) = 0 \/ sym[1] # "(" THEN BadStream
  ELSE ss_next(sym, [begin |-> 1, end |-> 2, state |-> "method", type |-> "T_ILLEGAL"])

ss_is_reference(ss) == ss.type \in {"T_OBJECT", "T_VALUETYPE"}
ss_at_return_type(ss) == ss.state = "return"
\* the class name of a reference token, without its tag and its ";"
ss_as_symbol(sym, ss) == SubSeq(sym, ss.begin + 1, ss.end - 2)

\* Symbol::is_Q_method_signature(): the return type token starts with Q
RECURSIVE is_Q_from(_, _)
is_Q_from(sym, i) ==
  IF i + 1 > Len(sym) THEN FALSE
  ELSE IF sym[i] = ")" /\ sym[i + 1] = "Q" THEN TRUE
  ELSE is_Q_from(sym, i + 1)

is_Q_method_signature(sym) == Len(sym) > 4 /\ sym[1] = "(" /\ is_Q_from(sym, 2)

(* ------------------------------ resolver ------------------------------- *)

\* accessing classes; A and B resolve every name alike, C sees another
\* class named S and has not loaded P
Klasses == {"A", "B", "C"}

get_klass_by_name_impl(accessing_klass, klass_name) ==
  IF klass_name = <<"P">>
    THEN (IF accessing_klass = "C" THEN "PointUnloaded" ELSE "Point")
    ELSE (IF accessing_klass = "C" THEN "String2" ELSE "String")

(* ------------------------------ ciMethodType --------------------------- *)

\* a parameter or return type of a method type with its never-null flag;
\* a method type holds loaded classes only
MTParamTypes ==
  { [type |-> t, never_null |-> FALSE] : t \in {"int", "long", "double", "Point", "String"} }
    \cup { [type |-> t, never_null |-> TRUE] : t \in {"Point", "String"} }
MTReturnTypes == MTParamTypes \cup { [type |-> "void", never_null |-> FALSE] }

MethodTypes ==
  { [ptypes |-> ps, rtype |-> r] : ps \in SeqsUpTo(MTParamTypes, MaxPTypes), r \in MTReturnTypes }

ptype_count(mt) == Len(mt.ptypes)

RECURSIVE slot_sum(_)
slot_sum(ps) ==
  IF ps = <<>> THEN 0 ELSE type2size(basic_type(Head(ps).type)) + slot_sum(Tail(ps))

ptype_slot_count(mt) == slot_sum(mt.ptypes)

\* the descriptor token of one type of a method type
mt_token(p) ==
  CASE p.type = "int" -> <<"I">>
    [] p.type = "long" -> <<"J">>
    [] p.type = "double" -> <<"D">>
    [] p.type = "void" -> <<"V">>
    [] p.type = "Point" -> <<(IF p.never_null THEN "Q" ELSE "L"), "P", ";">>
    [] OTHER -> <<(IF p.never_null THEN "Q" ELSE "L"), "S", ";">>

\* the descriptor symbol of a method type
mt_descriptor(mt) ==
  Descriptor([i \in 1..Len(mt.ptypes) |-> mt_token(mt.ptypes[i])], mt_token(mt.rtype))

(* ------------------------------ ciSignature ---------------------------- *)

NoSig == [symbol |-> <<>>, accessing_klass |-> "none", types |-> <<>>, size |-> 0, count |-> 0]
NoFrame == [accessing_klass |-> "none", symbol |-> <<>>, ss |-> BadStream,
            types |-> <<>>, size |-> 0, count |-> 0, done |-> FALSE]

\* the type of the token the stream stands on
element_type(accessing_klass, sym, ss) ==
  IF ~ss_is_reference(ss)
    THEN ciType_make(ss.type)
    ELSE get_klass_by_name_impl(accessing_klass, ss_as_symbol(sym, ss))

\* variant: the never-null wrapper goes around any type
wrap_never_null_any_type(type, never_null) ==
  IF never_null THEN make_never_null_wrapper(type) ELSE PlainType(type)

\* a value type whose token or flag is never-null gets wrapped
wrap_never_null(type, never_null) ==
  IF is_valuetype(type) /\ never_null THEN make_never_null_wrapper(type) ELSE PlainType(type)

\* the constructor's locals up to the loop
ctor_begin(accessing_klass, symbol) ==
  [accessing_klass |-> accessing_klass, symbol |-> symbol, ss |-> ss_new(symbol),
   types |-> <<>>, size |-> 0, count |-> 0, done |-> FALSE]

\* variant: the return type is counted as a parameter
ctor_loop_body_counts_return(f) ==
  LET type == wrap_never_null(element_type(f.accessing_klass, f.symbol, f.ss),
                              f.ss.type = "T_VALUETYPE")
      types == Append(f.types, type)
  IN  IF ss_at_return_type(f.ss)
        THEN [f EXCEPT !.types = types, !.size = f.size + size_of(type),
                       !.count = f.count + 1, !.done = TRUE]
        ELSE [f EXCEPT !.types = types, !.size = f.size + size_of(type),
                       !.count = f.count + 1, !.ss = ss_next(f.symbol, f.ss)]

\* variant: the size of the return type is added to the slot size
ctor_loop_body_sizes_return(f) ==
  LET type == wrap_never_null(element_type(f.accessing_klass, f.symbol, f.ss),
                              f.ss.type = "T_VALUETYPE")
      types == Append(f.types, type)
  IN  IF ss_at_return_type(f.ss)
        THEN [f EXCEPT !.types = types, !.size = f.size + size_of(type), !.done = TRUE]
        ELSE [f EXCEPT !.types = types, !.size = f.size + size_of(type),
                       !.count = f.count + 1, !.ss = ss_next(f.symbol, f.ss)]

\* variant: the loop also ends when the stream has no further token
ctor_loop_body_stops_at_end(f) ==
  LET type == wrap_never_null(element_type(f.accessing_klass, f.symbol, f.ss),
                              f.ss.type = "T_VALUETYPE")
      types == Append(f.types, type)
  IN  IF ss_at_return_type(f.ss)
        THEN [f EXCEPT !.types = types, !.done = TRUE]
        ELSE IF ss_next(f.symbol, f.ss).state = "bad"
          THEN [f EXCEPT !.types = types, !.size = f.size + size_of(type), !.done = TRUE]
        ELSE [f EXCEPT !.types = types, !.size = f.size + size_of(type),
                       !.count = f.count + 1, !.ss = ss_next(f.symbol, f.ss)]

\* variant: a parameter is stored in front of the parameters read so far
ctor_loop_body_stores_in_front(f) ==
  LET type == wrap_never_null(element_type(f.accessing_klass, f.symbol, f.ss),
                              f.ss.type = "T_VALUETYPE")
  IN  IF ss_at_return_type(f.ss)
        THEN [f EXCEPT !.types = Append(f.types, type), !.done = TRUE]
        ELSE [f EXCEPT !.types = <<type>> \o f.types, !.size = f.size + size_of(type),
                       !.count = f.count + 1, !.ss = ss_next(f.symbol, f.ss)]

\* one iteration of the loop over the signature stream
ctor_loop_body(f) ==
  LET type == wrap_never_null(element_type(f.accessing_klass, f.symbol, f.ss),
                              f.ss.type = "T_VALUETYPE")
      types == Append(f.types, type)
  IN  IF ss_at_return_type(f.ss)
        THEN [f EXCEPT !.types = types, !.done = TRUE]
        ELSE [f EXCEPT !.types = types, !.size = f.size + size_of(type),
                       !.count = f.count + 1, !.ss = ss_next(f.symbol, f.ss)]

\* the constructed object once the loop has ended
ctor_end(f) ==
  [symbol |-> f.symbol, accessing_klass |-> f.accessing_klass, types |-> f.types,
   size |-> f.size, count |-> f.count]

\* the whole constructor: the signature, or NoSig when the stream fails
RECURSIVE ctor_run(_)
ctor_run(f) ==
  IF f.ss.state = "bad" THEN NoSig
  ELSE LET g == ctor_loop_body(f)
       IN  IF g.done THEN ctor_end(g) ELSE ctor_run(g)

new_ciSignature(accessing_klass, symbol) == ctor_run(ctor_begin(accessing_klass, symbol))

\* the loop over the parameter types of a method type
RECURSIVE mt_ptypes(_, _, _)
mt_ptypes(mt, i, count) ==
  IF i >= count THEN <<>>
  ELSE <<wrap_never_null(mt.ptypes[i + 1].type, mt.ptypes[i + 1].never_null)>>
         \o mt_ptypes(mt, i + 1, count)

\* variant: the return type of the method type is never wrapped
new_ciSignature_mt_plain_return(accessing_klass, symbol, mt) ==
  [symbol |-> symbol, accessing_klass |-> accessing_klass,
   types |-> Append(mt_ptypes(mt, 0, ptype_count(mt)), PlainType(mt.rtype.type)),
   size |-> ptype_slot_count(mt), count |-> ptype_count(mt)]

new_ciSignature_mt(accessing_klass, symbol, mt) ==
  [symbol |-> symbol, accessing_klass |-> accessing_klass,
   types |-> Append(mt_ptypes(mt, 0, ptype_count(mt)),
                    wrap_never_null(mt.rtype.type, mt.rtype.never_null)),
   size |-> ptype_slot_count(mt), count |-> ptype_count(mt)]

(* -------------------------------- queries ------------------------------ *)

\* a query ends normally with a type or a flag, fails an assertion, or,
\* after an out-of-bounds read in a build without assertions, crashes
Ok(type, flag) == [status |-> "ok", type |-> type, flag |-> flag]
AssertFailed == [status |-> "fail", type |-> "none", flag |-> FALSE]
Crashed == [status |-> "crash", type |-> "none", flag |-> FALSE]

\* GrowableArray::at(i): full outcome set of reading element i
array_at(types, i, b) ==
  IF 0 <= i /\ i < Len(types) THEN {types[i + 1]}
  ELSE IF b = "debug" THEN {}
  ELSE {PlainType(t) : t \in Types} \cup {make_never_null_wrapper("Point")}

array_at_outcomes(types, i, b) ==
  IF 0 <= i /\ i < Len(types) THEN {}
  ELSE IF b = "debug" THEN {AssertFailed} ELSE {Crashed}

return_type(s) == unwrap(s.types[s.count + 1])

type_at(s, index, b) ==
  IF b = "debug" /\ ~(index < s.count) THEN {AssertFailed}
  ELSE {Ok(unwrap(e), FALSE) : e \in array_at(s.types, index, b)}
         \cup array_at_outcomes(s.types, index, b)

returns_never_null(s) == is_never_null(s.types[s.count + 1])

\* variant: a loaded class is looked up in the descriptor as well
maybe_returns_never_null_loaded(s) ==
  LET ret_type == s.types[s.count + 1]
  IN  IF is_never_null(ret_type) THEN TRUE
      ELSE IF is_instance_klass(ret_type.type)
        THEN is_Q_method_signature(s.symbol)
      ELSE FALSE

maybe_returns_never_null(s) ==
  LET ret_type == s.types[s.count + 1]
  IN  IF is_never_null(ret_type) THEN TRUE
      ELSE IF is_instance_klass(ret_type.type) /\ ~is_loaded(ret_type.type)
        THEN is_Q_method_signature(s.symbol)
      ELSE FALSE

is_never_null_at(s, index, b) ==
  IF b = "debug" /\ ~(index < s.count) THEN {AssertFailed}
  ELSE {Ok("none", is_never_null(e)) : e \in array_at(s.types, index, b)}
         \cup array_at_outcomes(s.types, index, b)

\* the loop over the argument types; both signatures have the same symbol
RECURSIVE equals_args(_, _, _)
equals_args(this, that, i) ==
  IF i >= this.count THEN TRUE
  ELSE IF unwrap(this.types[i + 1]) # unwrap(that.types[i + 1]) THEN FALSE
  ELSE equals_args(this, that, i + 1)

\* variant: the accessing classes are compared too
equals_same_klass(this, that) ==
  IF this.symbol # that.symbol THEN FALSE
  ELSE IF this.accessing_klass # that.accessing_klass THEN FALSE
  ELSE IF ~equals_args(this, that, 0) THEN FALSE
  ELSE IF return_type(this) # return_type(that) THEN FALSE
  ELSE TRUE

\* variant: the return types are not compared
equals_without_return(this, that) ==
  IF this.symbol # that.symbol THEN FALSE
  ELSE IF ~equals_args(this, that, 0) THEN FALSE
  ELSE TRUE

equals(this, that) ==
  IF this.symbol # that.symbol THEN FALSE
  ELSE IF ~equals_args(this, that, 0) THEN FALSE
  ELSE IF return_type(this) # return_type(that) THEN FALSE
  ELSE TRUE

(* ---------------------------- state machine ---------------------------- *)

\* the last completed operation and how it ended
Call(op, index, r, that) ==
  [op |-> op, index |-> index, status |-> r.status, type |-> r.type, flag |-> r.flag,
   that |-> that]
NoCall == Call("none", 0, Ok("none", FALSE), NoSig)

QueryOps ==
  {"return_type", "type_at", "returns_never_null", "maybe_returns_never_null",
   "is_never_null_at", "equals"}

\* indexes a caller may pass to the indexed queries of the signature s
Indexes(s) == -1 .. (s.count + 1)

\* a symbol other than sym
other_symbol(sym) == IF sym = <<"(", ")", "V">> THEN <<"(", "I", ")", "V">> ELSE <<"(", ")", "V">>

\* the signatures this one may be compared with
Others(s) ==
  { new_ciSignature(k, y) : k \in Klasses, y \in {s.symbol, other_symbol(s.symbol)} }

Init ==
  /\ build \in {"debug", "product"}
  /\ ctor = NoFrame
  /\ sig = NoSig
  /\ last = NoCall

\* ciSignature(accessing_klass, cpool, symbol) up to its loop
NewFromText ==
  /\ ctor = NoFrame
  /\ sig = NoSig
  /\ last = NoCall
  /\ \E accessing_klass \in Klasses, symbol \in Descriptors :
       ctor' = ctor_begin(accessing_klass, symbol)
  /\ UNCHANGED <<build, sig, last>>

\* one iteration of the constructor's loop; the iteration on the return
\* type ends the constructor
ProcessElement ==
  /\ ctor # NoFrame
  /\ ctor.ss.state # "bad"
  /\ LET f == ctor_loop_body(ctor)
     IN  IF f.done
           THEN /\ sig' = ctor_end(f)
                /\ ctor' = NoFrame
                /\ last' = Call("new_text", 0, Ok("none", FALSE), NoSig)
           ELSE /\ ctor' = f
                /\ UNCHANGED <<sig, last>>
  /\ UNCHANGED build

\* the stream cannot deliver a token: the construction is abandoned
FatalError ==
  /\ ctor # NoFrame
  /\ ctor.ss.state = "bad"
  /\ ctor' = NoFrame
  /\ last' = Call("fatal", 0, AssertFailed, NoSig)
  /\ UNCHANGED <<build, sig>>

\* ciSignature(accessing_klass, symbol, method_type)
NewFromMethodType ==
  /\ ctor = NoFrame
  /\ sig = NoSig
  /\ last = NoCall
  /\ \E accessing_klass \in Klasses, mt \in MethodTypes :
       sig' = new_ciSignature_mt(accessing_klass, mt_descriptor(mt), mt)
  /\ last' = Call("new_method_type", 0, Ok("none", FALSE), NoSig)
  /\ UNCHANGED <<build, ctor>>

\* the owner of the signature, or of the failed construction, is discarded
Discard ==
  /\ ctor = NoFrame
  /\ (sig # NoSig /\ last = NoCall) \/ last.op = "fatal"
  /\ sig' = NoSig
  /\ last' = NoCall
  /\ UNCHANGED <<build, ctor>>

\* the caller has taken the outcome of its query
Return ==
  /\ last.op \in QueryOps
  /\ last' = NoCall
  /\ UNCHANGED <<build, ctor, sig>>

\* a constructed signature whose caller is not inside a query
Published == sig # NoSig /\ last.op \notin QueryOps \cup {"fatal"}

ReturnType ==
  /\ Published
  /\ last' = Call("return_type", 0, Ok(return_type(sig), FALSE), NoSig)
  /\ UNCHANGED <<build, ctor, sig>>

TypeAt ==
  /\ Published
  /\ \E index \in Indexes(sig) : \E r \in type_at(sig, index, build) :
       last' = Call("type_at", index, r, NoSig)
  /\ UNCHANGED <<build, ctor, sig>>

ReturnsNeverNull ==
  /\ Published
  /\ last' = Call("returns_never_null", 0, Ok("none", returns_never_null(sig)), NoSig)
  /\ UNCHANGED <<build, ctor, sig>>

MaybeReturnsNeverNull ==
  /\ Published
  /\ last' = Call("maybe_returns_never_null", 0,
                  Ok("none", maybe_returns_never_null(sig)), NoSig)
  /\ UNCHANGED <<build, ctor, sig>>

IsNeverNullAt ==
  /\ Published
  /\ \E index \in Indexes(sig) : \E r \in is_never_null_at(sig, index, build) :
       last' = Call("is_never_null_at", index, r, NoSig)
  /\ UNCHANGED <<build, ctor, sig>>

Equals ==
  /\ Published
  /\ \E that \in Others(sig) \ {NoSig} :
       last' = Call("equals", 0, Ok("none", equals(sig, that)), that)
  /\ UNCHANGED <<build, ctor, sig>>

Next ==
  \/ NewFromText
  \/ ProcessElement
  \/ FatalError
  \/ NewFromMethodType
  \/ Discard
  \/ Return
  \/ ReturnType
  \/ TypeAt
  \/ ReturnsNeverNull
  \/ MaybeReturnsNeverNull
  \/ IsNeverNullAt
  \/ Equals

Spec == Init /\ [][Next]_vars

(* ------------------- reading a descriptor independently ---------------- *)

\* Class names never contain a tag character, so the tokens of a descriptor
\* start exactly at its tag characters.
TagChars == {"I", "J", "D", "V", "L", "Q"}

TokenStarts(sym) ==
  SelectSeq([i \in 1..Len(sym) |-> i], LAMBDA i : sym[i] \in TagChars)

NumTokens(sym) == Len(TokenStarts(sym))

\* the tag of the k-th token, k counted from 1
TokenTag(sym, k) == sym[TokenStarts(sym)[k]]

\* the type the k-th token stands for, as seen from accessing_klass
TokenType(accessing_klass, sym, k) ==
  LET tag == TokenTag(sym, k)
  IN  CASE tag = "I" -> "int"
        [] tag = "J" -> "long"
        [] tag = "D" -> "double"
        [] tag = "V" -> "void"
        [] OTHER -> get_klass_by_name_impl(accessing_klass, <<sym[TokenStarts(sym)[k] + 1]>>)

\* the number of tokens in front of the ")"
NumParamTokens(sym) ==
  Cardinality({k \in 1..NumTokens(sym) :
                 \E j \in 1..Len(sym) : sym[j] = ")" /\ TokenStarts(sym)[k] < j})

RECURSIVE SlotSum(_, _)
SlotSum(types, n) ==
  IF n = 0 THEN 0 ELSE SlotSum(types, n - 1) + type2size(basic_type(types[n].type))

SamePositions(s, t) ==
  {i \in 1..Len(s.types) : unwrap(s.types[i]) = unwrap(t.types[i])}

(* --------------------------------- claims ------------------------------ *)

\* C1: every constructed signature, from descriptor text or from a method
\* type, stores exactly parameter_count + 1 elements.
C1_LengthIsCountPlusOne == sig # NoSig => Len(sig.types) = sig.count + 1

C1_Witness ==
  /\ last.op = "new_text"
  /\ sig.count = 2
  /\ Len(sig.types) = 3

\* C2: after construction from descriptor text, parameter_count is the
\* number of tokens in front of the return type token and slot_size is the
\* sum of the sizes of the parameter elements alone; (I D QPoint;)V with
\* Point loaded gives parameter_count 3 and slot_size 4.
C2_SizeAndCountOfParameters ==
  last.op = "new_text" =>
    /\ sig.count = NumParamTokens(sig.symbol)
    /\ sig.size = SlotSum(sig.types, sig.count)
    /\ (sig.symbol = <<"(", "I", "D", "Q", "P", ";", ")", "V">> /\ sig.accessing_klass = "A"
          => sig.count = 3 /\ sig.size = 4)

C2_Witness ==
  /\ last.op = "new_text"
  /\ sig.symbol = <<"(", "I", "D", "Q", "P", ";", ")", "D">>
  /\ sig.accessing_klass = "A"
  /\ sig.count = 3
  /\ sig.size = 4
  /\ sig.types[3] = make_never_null_wrapper("Point")

\* C3: two signatures with the same symbol whose types agree at every
\* position are equal, whatever their accessing classes are.
C3_EqualsIgnoresAccessingKlass ==
  (/\ last.op = "equals"
   /\ last.that.symbol = sig.symbol
   /\ Len(last.that.types) = Len(sig.types)
   /\ SamePositions(sig, last.that) = 1..Len(sig.types))
    => last.flag = TRUE

C3_Witness ==
  /\ last.op = "equals"
  /\ sig.symbol = <<"(", "L", "S", ";", ")", "I">>
  /\ last.that.symbol = sig.symbol
  /\ sig.accessing_klass = "A"
  /\ last.that.accessing_klass = "B"
  /\ last.flag = TRUE

\* C4: two signatures with the same symbol whose types differ at one or
\* more positions, parameter or return type, are not equal.
C4_EqualsSeesEveryPosition ==
  (/\ last.op = "equals"
   /\ last.that.symbol = sig.symbol
   /\ Len(last.that.types) = Len(sig.types)
   /\ SamePositions(sig, last.that) # 1..Len(sig.types))
    => last.flag = FALSE

\* the return type is the only position that differs
C4_Witness ==
  /\ last.op = "equals"
  /\ last.that.symbol = sig.symbol
  /\ sig.count = 2
  /\ SamePositions(sig, last.that) = 1..2
  /\ last.flag = FALSE

\* C5: a never-null query is true exactly when the type at its position is
\* a loaded value type and the token of that position is a Q token.
C5_NeverNullIffLoadedValueTypeWithMarker ==
  /\ (last.op = "is_never_null_at" /\ last.status = "ok"
        /\ 0 <= last.index /\ last.index < sig.count)
       => last.flag = (/\ is_valuetype(unwrap(sig.types[last.index + 1]))
                       /\ is_loaded(unwrap(sig.types[last.index + 1]))
                       /\ TokenTag(sig.symbol, last.index + 1) = "Q")
  /\ last.op = "returns_never_null"
       => last.flag = (/\ is_valuetype(unwrap(sig.types[sig.count + 1]))
                       /\ is_loaded(unwrap(sig.types[sig.count + 1]))
                       /\ TokenTag(sig.symbol, sig.count + 1) = "Q")

\* an unloaded class behind a Q token is not never-null
C5_Witness ==
  /\ last.op = "is_never_null_at"
  /\ last.status = "ok"
  /\ last.index = 1
  /\ sig.count = 2
  /\ TokenTag(sig.symbol, 2) = "Q"
  /\ unwrap(sig.types[2]) = "PointUnloaded"
  /\ last.flag = FALSE

\* C6: maybe_returns_never_null() is true exactly when returns_never_null()
\* is, or the return type is an unloaded class behind a Q return token.
C6_MaybeReturnsNeverNull ==
  last.op = "maybe_returns_never_null" =>
    last.flag = (\/ returns_never_null(sig)
                 \/ /\ unwrap(sig.types[sig.count + 1]) = "PointUnloaded"
                    /\ TokenTag(sig.symbol, NumTokens(sig.symbol)) = "Q")

\* unloaded return class behind an L token, after a Q parameter
C6_Witness ==
  /\ last.op = "maybe_returns_never_null"
  /\ sig.symbol = <<"(", "Q", "P", ";", ")", "L", "P", ";">>
  /\ sig.accessing_klass = "C"
  /\ last.flag = FALSE

\* C7: a signature built from a method type has the elements, the
\* parameter_count, the slot_size and the never-null flags of the signature
\* built from the method type's descriptor with every class loaded.
C7_MethodTypeLikeText ==
  last.op = "new_method_type" =>
    LET t == new_ciSignature("A", sig.symbol)
    IN  /\ t.types = sig.types
        /\ t.count = sig.count
        /\ t.size = sig.size
        /\ \A i \in 1..Len(sig.types) : is_never_null(t.types[i]) = is_never_null(sig.types[i])

C7_Witness ==
  /\ last.op = "new_method_type"
  /\ sig.symbol = <<"(", "J", "Q", "P", ";", ")", "Q", "P", ";">>
  /\ sig.types = <<PlainType("long"), make_never_null_wrapper("Point"),
                   make_never_null_wrapper("Point")>>
  /\ sig.size = 3

\* C8: type_at and is_never_null_at with an index outside
\* 0 <= index < parameter_count never end with a type or a flag.
C8_OutOfBoundsNeverReturns ==
  (last.op \in {"type_at", "is_never_null_at"}
     /\ ~(0 <= last.index /\ last.index < sig.count))
    => last.status # "ok"

====
